---- MODULE Spec2Model ----
(***************************************************************************)
(* btctxstore/control.py: data-blob codec, broadcast messages, recoverable *)
(* signatures and the UTXO allocator, as state machines over a pycoin Tx.  *)
(* Bytes are sequences of 0..255, text is a sequence of ASCII codes.       *)
(***************************************************************************)
EXTENDS Integers, Sequences, FiniteSets, TLC

VARIABLES tx,        \* the pycoin Tx being built: [txs_in, txs_out]
          call,      \* the last control.py call: its name, arguments, error and result
          utxos,     \* what service.spendables_for_addresses returns
          split,     \* the recursion of split_utxos
          key,       \* the key in use: [secret_exponent, uncompressed]
          testnet,   \* the network flag passed to every call
          nops       \* the number of calls made on tx

vars == <<tx, call, utxos, split, key, testnet, nops>>

(***************************** bounds ***************************************)
MaxLen == 62          \* small payload lengths 0..MaxLen
MaxOps == 2           \* calls on one transaction
MaxSecret == 2        \* secret exponents 1..MaxSecret
MaxUtxos == 3         \* spendables the service returns
MaxOutputs == 3       \* max_outputs of split_utxos, 0..MaxOutputs

(***************************** python helpers *******************************)
Min(a, b) == IF a <= b THEN a ELSE b

\* s[a:b] for 0 <= a, python slice semantics (clamped), 0-based half open
Slice(s, a, b) == SubSeq(s, a + 1, Min(b, Len(s)))

\* s[a:]
From(s, a) == SubSeq(s, a + 1, Len(s))

Zeros(n) == [i \in 1..n |-> 0]

\* F(v) with v evaluated once
Let(v, F(_)) == CHOOSE r \in {F(x) : x \in {v}} : TRUE

IsPrefix(p, s) == Len(p) <= Len(s) /\ SubSeq(s, 1, Len(p)) = p

(***************************** constants ************************************)
SIZE_PREFIX_BYTES == 2

MAX_NULLDATA == 40

DUST_LIMIT == 548

(***************************** hex and script text **************************)
\* one lower-case hex digit, as its ASCII code
HexChar(n) == IF n < 10 THEN 48 + n ELSE 87 + n

\* the value of a hex digit given by its ASCII code, -1 if it is none
HexVal(c) ==
    IF c \in 48..57 THEN c - 48
    ELSE IF c \in 97..102 THEN c - 87
    ELSE IF c \in 65..70 THEN c - 55
    ELSE -1

\* pycoin.serialize.b2h
b2h(bytes) ==
    [i \in 1..(2 * Len(bytes)) |->
        HexChar(IF i % 2 = 1 THEN bytes[(i + 1) \div 2] \div 16
                             ELSE bytes[i \div 2] % 16)]

IsHex(text) == Len(text) % 2 = 0 /\ \A i \in 1..Len(text) : HexVal(text[i]) >= 0

\* pycoin.serialize.h2b, defined on hex text (binascii raises on anything else)
h2b(text) ==
    [i \in 1..(Len(text) \div 2) |->
        16 * HexVal(text[2 * i - 1]) + HexVal(text[2 * i])]

T_OP_RETURN == <<79, 80, 95, 82, 69, 84, 85, 82, 78>>
T_OP_DUP == <<79, 80, 95, 68, 85, 80>>
T_OP_HASH160 == <<79, 80, 95, 72, 65, 83, 72, 49, 54, 48>>
T_OP_EQUALVERIFY == <<79, 80, 95, 69, 81, 85, 65, 76, 86, 69, 82, 73, 70, 89>>
T_OP_CHECKSIG == <<79, 80, 95, 67, 72, 69, 67, 75, 83, 73, 71>>
T_UNKNOWN == <<91, 63, 93>>

\* the script opcodes control.py meets
OpName(op) ==
    CASE op = 106 -> T_OP_RETURN
      [] op = 118 -> T_OP_DUP
      [] op = 169 -> T_OP_HASH160
      [] op = 136 -> T_OP_EQUALVERIFY
      [] op = 172 -> T_OP_CHECKSIG
      [] OTHER -> T_UNKNOWN

\* pycoin write_push_data for 0 or 2..75 bytes
PushData(d) == IF Len(d) = 0 THEN <<>> ELSE <<Len(d)>> \o d

RECURSIVE DisTokens(_, _)
\* the tokens of a script from position i on: opcode names, pushed data in hex
DisTokens(s, i) ==
    IF i > Len(s) THEN <<>>
    ELSE IF s[i] \in 1..75
         THEN <<b2h(SubSeq(s, i + 1, Min(i + s[i], Len(s))))>> \o DisTokens(s, i + 1 + s[i])
         ELSE <<OpName(s[i])>> \o DisTokens(s, i + 1)

RECURSIVE JoinSp(_)
JoinSp(toks) ==
    IF Len(toks) = 0 THEN <<>>
    ELSE IF Len(toks) = 1 THEN toks[1]
    ELSE toks[1] \o <<32>> \o JoinSp(Tail(toks))

\* pycoin.tx.script.tools.disassemble
disassemble(script) == JoinSp(DisTokens(script, 1))

\* re.match("^OP_RETURN", text)
MatchOpReturn(text) == IsPrefix(T_OP_RETURN, text)

(***************************** common, serialize, deserialize ***************)
\* common.num_to_bytes: big-endian, bytes_len bytes; defined for num < 256^bytes_len
RECURSIVE num_to_bytes(_, _)
num_to_bytes(bytes_len, num) ==
    IF bytes_len = 0 THEN <<>>
    ELSE num_to_bytes(bytes_len - 1, num \div 256) \o <<num % 256>>

\* common.num_from_bytes
RECURSIVE num_from_bytes(_, _)
num_from_bytes(bytes_len, bytes) ==
    IF bytes_len = 0 THEN 0
    ELSE 256 * num_from_bytes(bytes_len - 1, SubSeq(bytes, 1, bytes_len - 1)) + bytes[bytes_len]

\* common.chunks(items, size)
chunks(items, size) ==
    [k \in 1..((Len(items) + size - 1) \div size) |->
        Slice(items, size * (k - 1), size * k)]

\* serialize.data: bytes to hex text
serialize_data(data) == b2h(data)

TxOut(coin_value, script) == [coin_value |-> coin_value, script |-> script]

\* deserialize.nulldata_txout: TxOut(0, compile("OP_RETURN <hex>"))
nulldata_txout(hexdata) == TxOut(0, <<106>> \o PushData(h2b(hexdata)))

\* the script of "OP_DUP OP_HASH160 <hex> OP_EQUALVERIFY OP_CHECKSIG"
P2PKHScript(hash160) == <<118, 169>> \o PushData(hash160) \o <<136, 172>>

\* deserialize.hash160data_txout
hash160data_txout(hexdata, dust_limit) == TxOut(dust_limit, P2PKHScript(h2b(hexdata)))

(***************************** results **************************************)
Ok(v) == [err |-> "none", val |-> v]
Raise(e) == [err |-> e, val |-> <<>>]

(***************************** output access ********************************)
\* _get_nulldata_output: the 0-based index of the first OP_RETURN output, -1 for None
NulldataIndexes(t) ==
    {i \in 0..(Len(t.txs_out) - 1) : MatchOpReturn(disassemble(t.txs_out[i + 1].script))}

get_nulldata_output(t) ==
    IF NulldataIndexes(t) = {} THEN -1
    ELSE CHOOSE i \in NulldataIndexes(t) : \A j \in NulldataIndexes(t) : i <= j

\* get_nulldata: (index, data) or NoNulldataOutput
get_nulldata(t) ==
    LET index == get_nulldata_output(t) IN
    IF index = -1 THEN Raise("NoNulldataOutput")
    ELSE LET text == From(disassemble(t.txs_out[index + 1].script), 10) IN
         IF IsHex(text) THEN Ok([index |-> index, data |-> h2b(text)])
         ELSE Raise("binascii.Error")

\* get_hash160_data: the 20 bytes of output output_index (0-based)
get_hash160_data(t, output_index) ==
    LET text == Slice(disassemble(t.txs_out[output_index + 1].script), 18, 58) IN
    IF IsHex(text) THEN Ok(h2b(text)) ELSE Raise("binascii.Error")

RECURSIVE Cat(_, _, _)
\* f[lo] \o ... \o f[hi]
Cat(f, lo, hi) ==
    IF lo > hi THEN <<>>
    ELSE IF lo = hi THEN f[lo]
    ELSE LET mid == (lo + hi) \div 2 IN Cat(f, lo, mid) \o Cat(f, mid + 1, hi)

(***************************** data blob ************************************)
get_data_blob(t) ==
    LET nd == get_nulldata(t) IN
    IF nd.err = "NoNulldataOutput" THEN Raise("NoDataBlob")
    ELSE IF nd.err # "none" THEN nd
    ELSE
    LET nulldata_index == nd.val.index
        nulldata == nd.val.data
    IN
    IF Len(nulldata) < SIZE_PREFIX_BYTES THEN Raise("NoDataBlob")
    ELSE
    LET size == num_from_bytes(SIZE_PREFIX_BYTES, Slice(nulldata, 0, SIZE_PREFIX_BYTES))
        data == From(nulldata, SIZE_PREFIX_BYTES)
    IN
    IF size < Len(data) THEN Raise("NoDataBlob")
    ELSE IF size = Len(data) THEN Ok(data)
    ELSE
    LET required_bytes == size - Len(data)
        required_hash160_outputs == (required_bytes + 19) \div 20
    IN
    IF required_hash160_outputs + nulldata_index + 1 > Len(t.txs_out)
    THEN Raise("NoDataBlob")
    ELSE
    LET parts == [index \in 1..required_hash160_outputs |->
                     get_hash160_data(t, (index - 1) + nulldata_index + 1)]
    IN
    IF \E index \in 1..required_hash160_outputs : parts[index].err # "none"
    THEN Raise("binascii.Error")
    ELSE LET all == data \o Cat([index \in 1..required_hash160_outputs |-> parts[index].val],
                                1, required_hash160_outputs)
         IN Ok(Slice(all, 0, size))

\* an append that does not look for an existing nulldata output
AppendNulldataOutput(t, txout) == Ok([t EXCEPT !.txs_out = Append(@, txout)])

\* add_nulldata_output: the new output list, or ExistingNulldataOutput
add_nulldata_output(t, txout) ==
    IF get_nulldata_output(t) # -1 THEN Raise("ExistingNulldataOutput")
    ELSE Ok([t EXCEPT !.txs_out = Append(@, txout)])

\* add_hash160data_output
add_hash160data_output(t, txout) == [t EXCEPT !.txs_out = Append(@, txout)]

\* a chunk's hex text left as long as the chunk
UnpaddedHex(hash160data) == serialize_data(hash160data)

\* the hex text of one chunk, the last one padded with '0' to 40 digits
PaddedHex(hash160data) ==
    LET hexdata == serialize_data(hash160data) IN
    IF Len(hexdata) < 40 THEN hexdata \o [i \in 1..(40 - Len(hexdata)) |-> 48]
    ELSE hexdata

\* len(data) > max_data_size
SizeExceeded(n) == n > 2 ^ (SIZE_PREFIX_BYTES * 8)

\* a capacity test that leaves the size prefix out of the count
PayloadFitsNulldata(framed) == Len(framed) - SIZE_PREFIX_BYTES <= MAX_NULLDATA

\* "nulldata is sufficient": the prefixed data fits one nulldata output
FitsNulldata(framed) == Len(framed) <= MAX_NULLDATA

\* add_data_blob with the size prefix already computed (control.py:139-160)
AddFramed(t, framed, dust_limit) ==
    IF FitsNulldata(framed)
    THEN add_nulldata_output(t, nulldata_txout(serialize_data(framed)))
    ELSE
    LET nulldata == Slice(framed, 0, MAX_NULLDATA)
        r == add_nulldata_output(t, nulldata_txout(serialize_data(nulldata)))
        cs == chunks(From(framed, MAX_NULLDATA), 20)
    IN
    IF r.err # "none" THEN r
    ELSE Ok([r.val EXCEPT !.txs_out =
                @ \o [k \in 1..Len(cs) |-> hash160data_txout(PaddedHex(cs[k]), dust_limit)]])

\* common.num_to_bytes as add_data_blob calls it: the prefix of an n-byte payload.
\* With a length that SIZE_PREFIX_BYTES bytes cannot hold, the packing wraps,
\* takes one byte more, or raises an error of its own.
SizePrefixes(n) ==
    IF n < 256 ^ SIZE_PREFIX_BYTES
    THEN {Ok(num_to_bytes(SIZE_PREFIX_BYTES, n))}
    ELSE {Ok(num_to_bytes(SIZE_PREFIX_BYTES, n)),
          Ok(num_to_bytes(SIZE_PREFIX_BYTES + 1, n)),
          Raise("OverflowError")}

\* add_data_blob: the outcomes of one call (one, but for a prefix overflow)
add_data_blob(t, data, dust_limit) ==
    IF SizeExceeded(Len(data)) THEN {Raise("MaxDataBlobSizeExceeded")}
    ELSE {IF size_prefix.err # "none" THEN size_prefix
          ELSE AddFramed(t, size_prefix.val \o data, dust_limit) :
             size_prefix \in SizePrefixes(Len(data))}

(***************************** the curve ************************************)
\* ecdsa.ecdsa.curve_secp256k1, y^2 = x^3 + a*x + b over GF(p), scaled to a
\* 43-element field on which the same equation has a group of prime order 31
curve_secp256k1 == [p |-> 43, a |-> 0, b |-> 7]

INFINITY == <<>>

\* ecdsa.numbertheory.inverse_mod for a not divisible by the prime m
inverse_mod(a, m) == CHOOSE i \in 1..(m - 1) : (i * a) % m = 1

\* Curve.contains_point
contains_point(x, y) ==
    LET c == curve_secp256k1 IN (y * y - (x * x * x + c.a * x + c.b)) % c.p = 0

\* Point.__add__ and Point.double, coordinates reduced mod p
PointAdd(P, Q) ==
    LET c == curve_secp256k1 IN
    IF P = INFINITY THEN Q
    ELSE IF Q = INFINITY THEN P
    ELSE IF P[1] = Q[1] /\ (P[2] + Q[2]) % c.p = 0 THEN INFINITY
    ELSE LET l == IF P[1] = Q[1]
                  THEN ((3 * P[1] * P[1] + c.a) * inverse_mod(2 * P[2], c.p)) % c.p
                  ELSE ((Q[2] - P[2]) * inverse_mod(Q[1] - P[1], c.p)) % c.p
             x3 == (l * l - P[1] - Q[1]) % c.p
             y3 == (l * (P[1] - x3) - P[2]) % c.p
         IN <<x3, y3>>

RECURSIVE PointMul(_, _)
\* Point.__mul__ for a scalar e >= 0 (double and add)
PointMul(e, P) ==
    IF e = 0 \/ P = INFINITY THEN INFINITY
    ELSE Let(PointMul(e \div 2, P),
             LAMBDA half : Let(PointAdd(half, half),
                               LAMBDA dbl : IF e % 2 = 1 THEN PointAdd(dbl, P) ELSE dbl))

\* ecdsa.ecdsa.generator_secp256k1 and G.order()
G == <<7, 7>>

order == 31

\* modsqrt.modular_sqrt: a square root of a mod p, 0 if there is none
modular_sqrt(a, p) ==
    IF \E y \in 1..(p - 1) : (y * y) % p = a % p
    THEN CHOOSE y \in 1..(p - 1) : (y * y) % p = a % p
    ELSE 0

(***************************** digests, addresses ***************************)
\* ecdsa's orderlen: the 65 signature bytes are a header byte, r and s
OrderLen == 32

\* ecdsa.util.string_to_number / util.bytestoint: big-endian
bytestoint(bytes) == num_from_bytes(Len(bytes), bytes)

\* _encode_varint for lengths below 0xfd
encode_varint(value) == <<value>>

\* b"\x18Bitcoin Signed Message:\n"
MessagePrefix ==
    <<24, 66, 105, 116, 99, 111, 105, 110, 32, 83, 105, 103, 110, 101, 100, 32,
      77, 101, 115, 115, 97, 103, 101, 58, 10>>

RECURSIVE Mix(_, _)
\* a one-byte stand-in for the compression of a hash function
Mix(bytes, acc) ==
    IF bytes = <<>> THEN acc
    ELSE Mix(Tail(bytes), (acc * 31 + Head(bytes) + 1) % 256)

\* pycoin.encoding.double_sha256, scaled to one significant byte of 32
double_sha256(bytes) == Zeros(31) \o <<Mix(bytes, 7)>>

\* _bitcoin_message_hash
bitcoin_message_hash(data) ==
    double_sha256(MessagePrefix \o encode_varint(Len(data)) \o data)

\* public_pair_to_hash160_sec: 20 bytes that determine the SEC encoding
public_pair_to_hash160_sec(public_pair, compressed) ==
    IF compressed
    THEN <<2 + (public_pair[2] % 2), public_pair[1]>> \o Zeros(18)
    ELSE <<4, public_pair[1], public_pair[2]>> \o Zeros(17)

\* _hash160_to_address: the network prefix and the hash160
hash160_to_address(tn, hash160) == <<IF tn THEN 111 ELSE 0>> \o hash160

\* _address_to_hash160
address_to_hash160(tn, address) == Tail(address)

\* _public_pair_to_address
public_pair_to_address(tn, public_pair, compressed) ==
    hash160_to_address(tn, public_pair_to_hash160_sec(public_pair, compressed))

\* key.address(): of the public key of the secret exponent
KeyAddress(tn, k) ==
    public_pair_to_address(tn, PointMul(k.secret_exponent, G), ~k.uncompressed)

(***************************** signatures ***********************************)
\* ecdsa.util.sigencode_string
sigencode_string(r, s) == num_to_bytes(OrderLen, r) \o num_to_bytes(OrderLen, s)

\* a header byte without the compressed flag
RecoveryParamsOnly(i, compressed, sigdata) == <<27 + i>> \o sigdata

\* _add_recovery_params
add_recovery_params(i, compressed, sigdata) ==
    <<27 + i + (IF compressed THEN 4 ELSE 0)>> \o sigdata

\* _parse_signature: AssertionError from sigdecode_string on a wrong length
parse_signature(sig) ==
    LET rsdata == From(sig, 1) IN
    IF Len(rsdata) # 2 * OrderLen THEN Raise("AssertionError")
    ELSE
    LET r == bytestoint(SubSeq(rsdata, 1, OrderLen))
        s == bytestoint(SubSeq(rsdata, OrderLen + 1, 2 * OrderLen))
        params == sig[1] - 27
    IN
    IF params < 0 \/ params > 7 THEN Raise("InvalidSignarureParameter")
    ELSE Ok([rsdata |-> rsdata, r |-> r, s |-> s,
             i |-> params % 4, compressed |-> (params \div 4) % 2 = 1])

\* _recover_public_key with the point R = (x, y) constructed
RecoverFrom(R, r, s, e) ==
    LET rInv == inverse_mod(r, order)
        eNeg == (-e) % order
    IN Let(PointMul(s % order, R),
           LAMBDA sR : Let(PointMul(eNeg, G),
                           LAMBDA eG : Let(PointAdd(sR, eG),
                                           LAMBDA sum : Ok(PointMul(rInv, sum)))))

\* _recover_public_key: Q, or the AssertionError of Point() or inverse_mod
recover_public_key(r, s, i, e) ==
    LET c == curve_secp256k1
        x == r + (i \div 2) * order
        alpha == (x * x * x + c.a * x + c.b) % c.p
    IN Let(modular_sqrt(alpha, c.p),
           LAMBDA beta :
               LET y == IF (beta - i) % 2 = 0 THEN beta ELSE c.p - beta IN
               IF ~contains_point(x, y) THEN Raise("AssertionError")
               ELSE IF r % order = 0 THEN Raise("AssertionError")
               ELSE RecoverFrom(<<x % c.p, y>>, r, s, e))

\* ecdsa Public_key.verifies
verifies(Q, e, r, s) ==
    IF r < 1 \/ r > order - 1 THEN FALSE
    ELSE IF s < 1 \/ s > order - 1 THEN FALSE
    ELSE
    LET c == inverse_mod(s, order)
        u1 == (e * c) % order
        u2 == (r * c) % order
    IN Let(PointMul(u1, G),
           LAMBDA u1G : Let(PointMul(u2, Q),
                            LAMBDA u2Q : Let(PointAdd(u1G, u2Q),
                                             LAMBDA xy : xy # INFINITY /\ xy[1] % order = r)))

\* verify_signature's try block after _parse_signature returned p
VerifyParsed(tn, address, p, e) ==
    Let(recover_public_key(p.r, p.s, p.i, e),
        LAMBDA rec :
            IF rec.err # "none" THEN rec
            ELSE IF rec.val = INFINITY THEN Raise("TypeError")
            ELSE IF ~verifies(rec.val, e, p.r, p.s) THEN Raise("BadSignatureError")
            ELSE Ok(address = public_pair_to_address(tn, rec.val, p.compressed)))

\* the body of verify_signature's try block
VerifyBody(tn, address, sig, data) ==
    Let(parse_signature(sig),
        LAMBDA parsed :
            IF parsed.err # "none" THEN parsed
            ELSE Let(bytestoint(bitcoin_message_hash(data)),
                     LAMBDA e : VerifyParsed(tn, address, parsed.val, e)))

\* the exceptions verify_signature catches
Caught == {"AssertionError", "InvalidSignarureParameter"}

\* verify_signature
verify_signature(tn, address, sig, data) ==
    Let(VerifyBody(tn, address, sig, data),
        LAMBDA r : IF r.err \in Caught THEN Ok(FALSE) ELSE r)

\* SigningKey.sign_digest_deterministic with the RFC 6979 nonce k:
\* r and s, or the RuntimeError of a zero r or s
sign_digest(secretexponent, digest, k) ==
    Let(bytestoint(digest),
        LAMBDA e :
            Let(PointMul(k, G)[1] % order,
                LAMBDA r :
                    Let((inverse_mod(k, order) * (e + secretexponent * r)) % order,
                        LAMBDA s : IF r = 0 \/ s = 0 THEN Raise("RuntimeError")
                                   ELSE Ok(sigencode_string(r, s)))))

\* the header candidates in sign_data's order: i = 0..3, compressed before not
Candidate(n, sigdata) == add_recovery_params((n - 1) \div 2, (n - 1) % 2 = 0, sigdata)

\* sign_data's loop over the candidates of sigdata, v their verifications
FirstVerified(sigdata, v) ==
    LET stops == {n \in 1..8 : v[n].err # "none" \/ v[n].val} IN
    IF stops = {} THEN Raise("Failed to serialize signature!")
    ELSE LET n == CHOOSE m \in stops : \A o \in stops : m <= o IN
         IF v[n].err # "none" THEN v[n] ELSE Ok(Candidate(n, sigdata))

\* sign_data, k the nonce of the deterministic signature
sign_data(tn, data, k_, k) ==
    Let(sign_digest(k_.secret_exponent, bitcoin_message_hash(data), k),
        LAMBDA signed :
            IF signed.err # "none" THEN signed
            ELSE Let(KeyAddress(tn, k_),
                     LAMBDA address :
                         Let(<<verify_signature(tn, address, Candidate(1, signed.val), data),
                               verify_signature(tn, address, Candidate(2, signed.val), data),
                               verify_signature(tn, address, Candidate(3, signed.val), data),
                               verify_signature(tn, address, Candidate(4, signed.val), data),
                               verify_signature(tn, address, Candidate(5, signed.val), data),
                               verify_signature(tn, address, Candidate(6, signed.val), data),
                               verify_signature(tn, address, Candidate(7, signed.val), data),
                               verify_signature(tn, address, Candidate(8, signed.val), data)>>,
                             LAMBDA v : FirstVerified(signed.val, v))))

(***************************** broadcast messages ***************************)
\* the frame of a broadcast message: signature, padding, hash160, message
SIG_BYTES == 65

PAD_BYTES == 13

HASH160_BYTES == 20

RECURSIVE Sum(_)
Sum(seq) == IF seq = <<>> THEN 0 ELSE Head(seq) + Sum(Tail(seq))

\* zlib.compress(data, 9), scaled: a two-byte header, the data, a one-byte checksum
zlib_compress(data) == <<120, 218>> \o data \o <<(Sum(data) + 1) % 256>>

\* zlib.decompress: the data, or zlib.error on a stream that is not a compressed one
zlib_decompress(z) ==
    IF Len(z) < 3 \/ SubSeq(z, 1, 2) # <<120, 218>> THEN Raise("zlib.error")
    ELSE LET data == SubSeq(z, 3, Len(z) - 1) IN
         IF z[Len(z)] # (Sum(data) + 1) % 256 THEN Raise("zlib.error") ELSE Ok(data)

\* the data add_broadcast_message hands to add_data_blob (control.py:55-63)
MessageFrame(tn, signature, sender_key, msg_data) ==
    signature \o Zeros(PAD_BYTES) \o address_to_hash160(tn, KeyAddress(tn, sender_key))
        \o zlib_compress(msg_data)

\* add_broadcast_message: the outcomes of one call, k the signature's nonce
add_broadcast_message(tn, t, message, sender_key, dust_limit, k) ==
    Let(sign_data(tn, message, sender_key, k),
        LAMBDA signature :
            IF signature.err # "none" THEN {signature}
            ELSE add_data_blob(t, MessageFrame(tn, signature.val, sender_key, message),
                               dust_limit))

\* get_broadcast_message after get_data_blob returned data of at least min_data bytes
ParseFrame(tn, blob) ==
    LET signature == Slice(blob, 0, SIG_BYTES)
        data == From(From(blob, SIG_BYTES), PAD_BYTES)
        address == hash160_to_address(tn, Slice(data, 0, HASH160_BYTES))
    IN Let(zlib_decompress(From(data, HASH160_BYTES)),
           LAMBDA msg_data :
               IF msg_data.err # "none" THEN msg_data
               ELSE Let(verify_signature(tn, address, signature, msg_data.val),
                        LAMBDA v :
                            IF v.err # "none" THEN v
                            ELSE IF ~v.val THEN Raise("NoBroadcastMessage")
                            ELSE Ok([address |-> address, message |-> msg_data.val,
                                     signature |-> signature])))

\* get_broadcast_message
get_broadcast_message(tn, t) ==
    Let(get_data_blob(t),
        LAMBDA blob :
            IF blob.err = "NoDataBlob" THEN Raise("NoBroadcastMessage")
            ELSE IF blob.err # "none" THEN blob
            ELSE IF Len(blob.val) < SIG_BYTES + PAD_BYTES + HASH160_BYTES + 0
                 THEN Raise("NoBroadcastMessage")
            ELSE ParseFrame(tn, blob.val))

(***************************** funding **************************************)
RECURSIVE InsertDesc(_, _)
\* s, sorted by descending coin value, with x after the elements not below it
InsertDesc(s, x) ==
    IF s = <<>> THEN <<x>>
    ELSE IF Head(s).coin_value >= x.coin_value THEN <<Head(s)>> \o InsertDesc(Tail(s), x)
    ELSE <<x>> \o s

RECURSIVE SortDesc(_)
\* sorted(spendables, key=coin_value, reverse=True): stable
SortDesc(s) ==
    IF s = <<>> THEN <<>>
    ELSE InsertDesc(SortDesc(SubSeq(s, 1, Len(s) - 1)), s[Len(s)])

\* the spendables in the order the service returns them
ServiceOrder(service) == service

\* retrieve_utxos: what the service returns, sorted
retrieve_utxos(service) == SortDesc(service)

TxIn(spendable) ==
    [previous_hash |-> spendable.tx_hash, previous_index |-> spendable.tx_out_index]

RECURSIVE FindLoop(_, _, _, _)
\* the loop of find_txins over the spendables left
FindLoop(spendables, txins, total, amount) ==
    IF spendables = <<>> THEN [txins |-> txins, total |-> total]
    ELSE LET t == total + Head(spendables).coin_value
             ins == Append(txins, TxIn(Head(spendables)))
         IN IF t >= amount THEN [txins |-> ins, total |-> t]
            ELSE FindLoop(Tail(spendables), ins, t, amount)

\* find_txins
find_txins(service, amount) == FindLoop(retrieve_utxos(service), <<>>, 0, amount)

RECURSIVE SumRange(_, _, _)
\* the coin values of outs[lo..hi] added up
SumRange(outs, lo, hi) ==
    IF lo > hi THEN 0
    ELSE IF lo = hi THEN outs[lo].coin_value
    ELSE LET mid == (lo + hi) \div 2 IN SumRange(outs, lo, mid) + SumRange(outs, mid + 1, hi)

\* sum([out.coin_value for out in outs])
SumValues(outs) == SumRange(outs, 1, Len(outs))

\* deserialize.txout: pays value to address
txout(tn, address, value) == TxOut(value, P2PKHScript(address_to_hash160(tn, address)))

\* add_inputs with change_address = None: the change goes to the first key
add_inputs(service, tn, t, k_, fee) ==
    LET required == SumValues(t.txs_out) + fee IN
    Let(find_txins(service, required),
        LAMBDA found :
            IF found.total < required
            THEN [err |-> "InsufficientFunds", val |-> <<required, found.total>>]
            ELSE Ok([txs_in |-> t.txs_in \o found.txins,
                     txs_out |-> Append(t.txs_out,
                                        txout(tn, KeyAddress(tn, k_), found.total - required))]))

(***************************** splitting utxos ******************************)
\* create_tx: the Tx of the inputs and outputs; signing and publishing leave
\* both as they are
create_tx(txins, txouts) == [txs_in |-> txins, txs_out |-> txouts]

RECURSIVE InsertAsc(_, _)
\* s, sorted by ascending coin value, with x after the elements not above it
InsertAsc(s, x) ==
    IF s = <<>> THEN <<x>>
    ELSE IF Head(s).coin_value <= x.coin_value THEN <<Head(s)>> \o InsertAsc(Tail(s), x)
    ELSE <<x>> \o s

RECURSIVE SortAsc(_)
\* sorted(spendables, key=coin_value): stable
SortAsc(s) ==
    IF s = <<>> THEN <<>>
    ELSE InsertAsc(SortAsc(SubSeq(s, 1, Len(s) - 1)), s[Len(s)])

\* _filter_dust
filter_dust(spendables, fee, limit) ==
    SortAsc(SelectSeq(SelectSeq(spendables, LAMBDA s : s.coin_value > fee),
                      LAMBDA s : s.coin_value > limit))

\* _enough_to_split
enough_to_split(spendables, fee, limit) == SumValues(spendables) >= fee + limit * 2

RECURSIVE TakeLoop(_, _, _)
\* the loop of _take_txins: spendables.pop() takes the last one
TakeLoop(spendables, inputs, maxinput) ==
    LET inputs_total == SumValues(inputs) IN
    IF inputs_total > maxinput \/ spendables = <<>>
    THEN [txins |-> [i \in 1..Len(inputs) |-> TxIn(inputs[i])],
          inputs_total |-> inputs_total,
          spendables |-> spendables]
    ELSE TakeLoop(SubSeq(spendables, 1, Len(spendables) - 1),
                  Append(inputs, spendables[Len(spendables)]), maxinput)

RECURSIVE TakeHeadLoop(_, _, _)
\* a loop that takes the first spendable where _take_txins takes the last
TakeHeadLoop(spendables, inputs, maxinput) ==
    LET inputs_total == SumValues(inputs) IN
    IF inputs_total > maxinput \/ spendables = <<>>
    THEN [txins |-> [i \in 1..Len(inputs) |-> TxIn(inputs[i])],
          inputs_total |-> inputs_total,
          spendables |-> spendables]
    ELSE TakeHeadLoop(Tail(spendables), Append(inputs, Head(spendables)), maxinput)

TakeSmallestFirst(spendables, limit, max_outputs, fee) ==
    TakeHeadLoop(spendables, <<>>, limit * max_outputs + fee)

\* _take_txins: the inputs, their total and the spendables left in the list
take_txins(spendables, limit, max_outputs, fee) ==
    TakeLoop(spendables, <<>>, limit * max_outputs + fee)

\* outputs of equal value that drop the remainder of the division
EvenOutputs(tn, inputs_total, fee, max_outputs, limit, k_) ==
    LET txouts_total == inputs_total - fee
        txouts_cnt == IF txouts_total > max_outputs * limit THEN max_outputs
                      ELSE txouts_total \div limit
    IN IF limit = 0 \/ txouts_cnt = 0 THEN Raise("ZeroDivisionError")
       ELSE Ok([i \in 1..txouts_cnt |->
                   txout(tn, KeyAddress(tn, k_), txouts_total \div txouts_cnt)])

\* _outputs: the outputs, or the ZeroDivisionError of a zero limit or count,
\* or the AssertionError of its last line
outputs(tn, inputs_total, fee, max_outputs, limit, k_) ==
    LET txouts_total == inputs_total - fee IN
    IF ~(txouts_total > max_outputs * limit) /\ limit = 0 THEN Raise("ZeroDivisionError")
    ELSE
    LET txouts_cnt == IF txouts_total > max_outputs * limit THEN max_outputs
                      ELSE txouts_total \div limit
    IN
    IF txouts_cnt = 0 THEN Raise("ZeroDivisionError")
    ELSE
    LET txout_amount == txouts_total \div txouts_cnt
        rounded_amount == txouts_total - txout_amount * txouts_cnt
    IN Let(KeyAddress(tn, k_),
           LAMBDA address :
               Let([i \in 1..txouts_cnt |->
                       txout(tn, address,
                             IF i = 1 THEN txout_amount + rounded_amount
                             ELSE txout_amount)],
                   LAMBDA txouts :
                       IF txouts_total # SumValues(txouts) THEN Raise("AssertionError")
                       ELSE Ok(txouts)))

\* split_utxos after _take_txins returned taken
SplitTaken(tn, k_, sp, taken) ==
    Let(outputs(tn, taken.inputs_total, sp.fee, sp.max_outputs, sp.limit, k_),
        LAMBDA txouts :
            IF txouts.err # "none"
            THEN [sp EXCEPT !.pc = "raised", !.err = txouts.err,
                            !.spendables = taken.spendables]
            ELSE [sp EXCEPT !.spendables = taken.spendables,
                            !.txs = Append(@, create_tx(taken.txins, txouts.val))])

\* one call of split_utxos on the recursion sp: it returns [] (done), raises,
\* or makes a transaction and calls itself with the spendables left
split_utxos(tn, k_, sp) ==
    Let(filter_dust(sp.spendables, sp.fee, sp.limit),
        LAMBDA spendables :
            IF ~enough_to_split(spendables, sp.fee, sp.limit)
            THEN [sp EXCEPT !.pc = "done", !.spendables = spendables]
            ELSE Let(take_txins(spendables, sp.limit, sp.max_outputs, sp.fee),
                     LAMBDA taken : SplitTaken(tn, k_, sp, taken)))

(***************************** inputs ***************************************)
Patterns == {"zero", "ff", "ramp"}

\* the payload of a length and a fill pattern
Payload(len, pat) ==
    [i \in 1..len |-> CASE pat = "zero" -> 0
                        [] pat = "ff" -> 255
                        [] OTHER -> (7 * i) % 256]

\* lengths at the end of the size prefix's range
BigLens == {256 ^ SIZE_PREFIX_BYTES - 1, 256 ^ SIZE_PREFIX_BYTES, 256 ^ SIZE_PREFIX_BYTES + 1}

PayloadArgs ==
    ((0..MaxLen) \X Patterns) \cup (BigLens \X {"ramp"})

DustLimits == {DUST_LIMIT, 0}

EmptyTx == [txs_in |-> <<>>, txs_out |-> <<>>]

NoCall == [op |-> "none", arg |-> <<>>, pre |-> EmptyTx, err |-> "none", ret |-> <<>>]

Called(op, arg, pre, err, ret) ==
    [op |-> op, arg |-> arg, pre |-> pre, err |-> err, ret |-> ret]

NoSplit == [pc |-> "off"]

NoKey == [secret_exponent |-> 0, uncompressed |-> FALSE]

(***************************** the codec on a fresh transaction *************)
CodecInit ==
    /\ tx = EmptyTx
    /\ call = NoCall
    /\ utxos = <<>>
    /\ split = NoSplit
    /\ key = NoKey
    /\ testnet = FALSE
    /\ nops = 0

\* add_data_blob(tx, payload, dust_limit) on the transaction
Encode ==
    /\ tx.txs_out = <<>>
    /\ call.op = "none"
    /\ \E a \in PayloadArgs, dust_limit \in DustLimits :
         \E r \in add_data_blob(tx, Payload(a[1], a[2]), dust_limit) :
            /\ tx' = IF r.err = "none" THEN r.val ELSE tx
            /\ call' = Called("add_data_blob", <<a[1], a[2], dust_limit>>, <<>>, r.err, <<>>)
    /\ UNCHANGED <<utxos, split, key, testnet, nops>>

\* get_data_blob(tx), pre the outcome of the add_data_blob before it
Decode ==
    /\ call.op = "add_data_blob"
    /\ LET r == get_data_blob(tx) IN
         call' = Called("get_data_blob", call.arg, call.err, r.err, r.val)
    /\ UNCHANGED <<tx, utxos, split, key, testnet, nops>>

CodecNext == Encode \/ Decode

SpecCodec == CodecInit /\ [][CodecNext]_vars

\* the largest length the size prefix can hold
MaxPrefixed == 256 ^ SIZE_PREFIX_BYTES - 1

\* the outputs of t that carry hash160 data: those that are no nulldata output
Carriers(t) == (0..(Len(t.txs_out) - 1)) \ NulldataIndexes(t)

\* the last call encoded a payload of len bytes on the fresh transaction
Encoded(len) == call.op = "add_data_blob" /\ call.arg[1] = len /\ call.err = "none"

\* C1: add_data_blob accepts every payload of 0..65535 bytes on a fresh
\* transaction, with any dust limit, and get_data_blob of the result returns
\* exactly the payload: no size prefix, no padding of the last chunk.
C1_RoundTrip ==
    /\ (call.op = "add_data_blob" /\ call.arg[1] <= MaxPrefixed) => call.err = "none"
    /\ (call.op = "get_data_blob" /\ call.arg[1] <= MaxPrefixed) =>
          /\ call.pre = "none"
          /\ call.err = "none"
          /\ call.ret = Payload(call.arg[1], call.arg[2])

\* a payload with a padded last chunk, decoded to itself
C1_Witness ==
    /\ call.op = "get_data_blob"
    /\ call.arg[1] + SIZE_PREFIX_BYTES > MAX_NULLDATA
    /\ (call.arg[1] + SIZE_PREFIX_BYTES - MAX_NULLDATA) % 20 # 0
    /\ call.arg[2] = "ff"
    /\ Cardinality(Carriers(tx)) >= 2
    /\ call.err = "none"
    /\ call.ret = Payload(call.arg[1], call.arg[2])

\* C2: add_data_blob raises MaxDataBlobSizeExceeded exactly for the payloads
\* longer than 65535 bytes, and then appends nothing to the transaction.
C2_SizeLimit ==
    call.op = "add_data_blob" =>
        /\ call.arg[1] > MaxPrefixed <=> call.err = "MaxDataBlobSizeExceeded"
        /\ call.err = "MaxDataBlobSizeExceeded" => tx = EmptyTx

\* C4 as stated: a payload of MAX_NULLDATA bytes is encoded as one nulldata
\* output and no carrier, a payload of MAX_NULLDATA + 1 bytes as one nulldata
\* output followed by exactly one carrier.
C4_PayloadBoundary ==
    /\ Encoded(MAX_NULLDATA) => NulldataIndexes(tx) = {0} /\ Len(tx.txs_out) = 1
    /\ Encoded(MAX_NULLDATA + 1) => NulldataIndexes(tx) = {0} /\ Len(tx.txs_out) = 2

\* C4: the boundary is that of the prefixed data. A payload of
\* MAX_NULLDATA - SIZE_PREFIX_BYTES bytes is encoded as one nulldata output and
\* no carrier, a payload one byte longer as one nulldata output followed by
\* exactly one carrier.
C4_FramedBoundary ==
    /\ Encoded(MAX_NULLDATA - SIZE_PREFIX_BYTES) =>
          NulldataIndexes(tx) = {0} /\ Len(tx.txs_out) = 1
    /\ Encoded(MAX_NULLDATA - SIZE_PREFIX_BYTES + 1) =>
          NulldataIndexes(tx) = {0} /\ Len(tx.txs_out) = 2

\* the payload one byte over the boundary, encoded with its one carrier
C4_Witness ==
    /\ Encoded(MAX_NULLDATA - SIZE_PREFIX_BYTES + 1)
    /\ Carriers(tx) = {1}
    /\ get_hash160_data(tx, 1).err = "none"

(***************************** the signature engine *************************)
SecretExponents == 1..MaxSecret

Keys == [secret_exponent : SecretExponents, uncompressed : BOOLEAN]

Messages == {<<>>, <<104, 105>>, <<104, 101, 108, 108, 111>>}

\* the affine points of the curve
CurvePoints ==
    {P \in (0..(curve_secp256k1.p - 1)) \X (0..(curve_secp256k1.p - 1)) :
        contains_point(P[1], P[2])}

\* The RFC 6979 nonces of a key and a digest. The nonce is a pseudorandom
\* function of both, so any nonce may occur, but for the coincidences a 256-bit
\* curve meets with negligible probability: a zero r or s, or an s for which
\* some point R' with x = r (mod order) has s*R' = e*G (a header that recovers
\* the point at infinity).
Nonces(secretexponent, digest) ==
    Let(bytestoint(digest),
        LAMBDA e :
            {k \in 1..(order - 1) :
                \E r \in {PointMul(k, G)[1] % order} :
                \E s \in {(inverse_mod(k, order) * (e + secretexponent * r)) % order} :
                \E eG \in {PointMul(e % order, G)} :
                    /\ r # 0
                    /\ s # 0
                    /\ \A P \in CurvePoints : P[1] % order = r => PointMul(s, P) # eG})

RawHeaders == {26, 27, 28, 29, 30, 31, 34, 35}

RawR == {0, 1, 2, 7, 12, order - 1, order, order + 2}

RawS == {0, 1, 2, order - 1, order, order + 1}

\* signatures of the right length with any header, r and s, and malformed ones
RawSigs ==
    {<<h>> \o sigencode_string(r, s) : h \in RawHeaders, r \in RawR, s \in RawS}
    \cup {<<>>, <<27>>, <<27>> \o Zeros(2 * OrderLen - 1), <<27>> \o Zeros(2 * OrderLen + 1)}

SigInit ==
    /\ tx = EmptyTx
    /\ call = NoCall
    /\ utxos = <<>>
    /\ split = NoSplit
    /\ key \in Keys
    /\ testnet \in BOOLEAN
    /\ nops = 0

\* sign_data(testnet, data, key)
Sign ==
    /\ call.op = "none"
    /\ \E data \in Messages :
       \E k \in Nonces(key.secret_exponent, bitcoin_message_hash(data)) :
         LET r == sign_data(testnet, data, key, k) IN
         call' = Called("sign_data", <<data, k>>, <<>>, r.err, r.val)
    /\ UNCHANGED <<tx, utxos, split, key, testnet, nops>>

\* verify_signature(testnet, key.address(), sig, data) of the signature just
\* made, pre the sign_data call that made it
VerifySigned ==
    /\ call.op = "sign_data"
    /\ call.err = "none"
    /\ \E data \in Messages :
         LET r == verify_signature(testnet, KeyAddress(testnet, key), call.ret, data) IN
         call' = Called("verify_signature", <<call.ret, data>>, call, r.err, r.val)
    /\ UNCHANGED <<tx, utxos, split, key, testnet, nops>>

\* verify_signature(testnet, address, sig, data) of arbitrary signature bytes
VerifyRaw ==
    /\ call.op = "none"
    /\ \E sig \in RawSigs, data \in {<<>>, <<104, 105>>} :
         LET r == verify_signature(testnet, KeyAddress(testnet, key), sig, data) IN
         call' = Called("verify_signature", <<sig, data>>, NoCall, r.err, r.val)
    /\ UNCHANGED <<tx, utxos, split, key, testnet, nops>>

SigNext == Sign \/ VerifySigned \/ VerifyRaw

SpecSig == SigInit /\ [][SigNext]_vars

\* C5: verify_signature is total. For every signature byte string and every
\* data it returns a boolean and raises nothing.
C5_VerifyTotal ==
    call.op = "verify_signature" => call.err = "none" /\ call.ret \in BOOLEAN

\* candidate n of the signature sig verifies for the key's address
Verifies(n, sig, data) ==
    verify_signature(testnet, KeyAddress(testnet, key), Candidate(n, From(sig, 1)), data)
        = Ok(TRUE)

Spendable(id, value) == [tx_hash |-> id, tx_out_index |-> 0, coin_value |-> value]

\* the spendables of the lists of coin values
Service(values) == [i \in 1..Len(values) |-> Spendable(i, values[i])]

TxPayloadArgs ==
    {<<0, "ramp">>, <<MAX_NULLDATA - SIZE_PREFIX_BYTES, "zero">>,
     <<MAX_NULLDATA - SIZE_PREFIX_BYTES + 1, "ramp">>, <<MaxLen, "ff">>,
     <<MaxPrefixed, "ramp">>, <<MaxPrefixed + 1, "ramp">>, <<MaxPrefixed + 2, "ramp">>}

Fees == {0, 1000, 10000}

TxMessage == <<104, 105>>

\* two of the nonces a key can sign TxMessage with
TxNonces ==
    [d \in SecretExponents |->
        {n \in Nonces(d, bitcoin_message_hash(TxMessage)) : n <= 2}]

TxInit ==
    /\ tx = EmptyTx
    /\ call = NoCall
    /\ utxos \in {Service(<<>>), Service(<<5000, 3000, 1000>>)}
    /\ split = NoSplit
    /\ key \in {k \in Keys : ~k.uncompressed}
    /\ testnet = FALSE
    /\ nops = 0

\* what a call leaves: the transaction r holds, or tx untouched when it raised
After(r) == IF r.err = "none" THEN r.val ELSE tx

\* add_data_blob(tx, payload, dust_limit); the payloads at the end of the size
\* prefix's range are tried on the transactions that refuse them
TxAddDataBlob ==
    /\ nops < MaxOps
    /\ \E a \in TxPayloadArgs :
         /\ a[1] > MaxLen => NulldataIndexes(tx) # {}
         /\ \E r \in add_data_blob(tx, Payload(a[1], a[2]), DUST_LIMIT) :
            /\ tx' = After(r)
            /\ call' = Called("add_data_blob", <<a[1], a[2], DUST_LIMIT>>, tx, r.err, <<>>)
    /\ nops' = nops + 1
    /\ UNCHANGED <<utxos, split, key, testnet>>

\* add_broadcast_message(testnet, tx, message, key)
TxAddBroadcastMessage ==
    /\ nops < MaxOps
    /\ \E message \in {TxMessage} :
       \E k \in TxNonces[key.secret_exponent] :
       \E r \in add_broadcast_message(testnet, tx, message, key, DUST_LIMIT, k) :
            /\ tx' = After(r)
            /\ call' = Called("add_broadcast_message", <<message, k>>, tx, r.err, <<>>)
    /\ nops' = nops + 1
    /\ UNCHANGED <<utxos, split, key, testnet>>

\* add_nulldata_output(tx, nulldata_txout)
TxAddNulldataOutput ==
    /\ nops < MaxOps
    /\ \E data \in {<<>>, <<0, 3, 1, 2, 3>>, <<1, 0>>} :
         LET r == add_nulldata_output(tx, nulldata_txout(serialize_data(data))) IN
            /\ tx' = After(r)
            /\ call' = Called("add_nulldata_output", data, tx, r.err, <<>>)
    /\ nops' = nops + 1
    /\ UNCHANGED <<utxos, split, key, testnet>>

\* add_hash160data_output(tx, hash160data_txout)
TxAddHash160DataOutput ==
    /\ nops < MaxOps
    /\ \E data \in {Zeros(20), Payload(20, "ramp")} :
            /\ tx' = add_hash160data_output(tx, hash160data_txout(serialize_data(data), DUST_LIMIT))
            /\ call' = Called("add_hash160data_output", data, tx, "none", <<>>)
    /\ nops' = nops + 1
    /\ UNCHANGED <<utxos, split, key, testnet>>

\* add_inputs(service, testnet, tx, [key], fee=fee)
TxAddInputs ==
    /\ nops < MaxOps
    /\ \E fee \in Fees :
         LET r == add_inputs(utxos, testnet, tx, key, fee) IN
            /\ tx' = After(r)
            /\ call' = Called("add_inputs", fee, tx, r.err, r.val)
    /\ nops' = nops + 1
    /\ UNCHANGED <<utxos, split, key, testnet>>

TxNext ==
    \/ TxAddDataBlob
    \/ TxAddBroadcastMessage
    \/ TxAddNulldataOutput
    \/ TxAddHash160DataOutput
    \/ TxAddInputs

SpecTx == TxInit /\ [][TxNext]_vars

\* the last call was an add_data_blob on a transaction with a nulldata output
EncodedOnNulldata == call.op = "add_data_blob" /\ NulldataIndexes(call.pre) # {}

\* C3 as stated: the transaction never has two nulldata outputs, and every
\* add_data_blob on a transaction that has one raises ExistingNulldataOutput
\* and leaves the transaction as it was.
C3_ExistingNulldata ==
    /\ Cardinality(NulldataIndexes(tx)) <= 1
    /\ EncodedOnNulldata => call.err = "ExistingNulldataOutput" /\ tx = call.pre

\* C3: the transaction never has two nulldata outputs, and every add_data_blob
\* on a transaction that has one raises and leaves the transaction as it was:
\* ExistingNulldataOutput for a payload the size prefix can hold,
\* MaxDataBlobSizeExceeded for a payload the size check rejects, which it does
\* before it looks at the transaction.
C3_OneNulldata ==
    /\ Cardinality(NulldataIndexes(tx)) <= 1
    /\ EncodedOnNulldata =>
          /\ call.err # "none"
          /\ tx = call.pre
          /\ call.arg[1] <= MaxPrefixed => call.err = "ExistingNulldataOutput"
          /\ SizeExceeded(call.arg[1]) => call.err = "MaxDataBlobSizeExceeded"

\* a payload that needs a carrier, refused on a transaction with a nulldata output
C3_Witness ==
    /\ EncodedOnNulldata
    /\ call.arg[1] = MAX_NULLDATA - SIZE_PREFIX_BYTES + 1
    /\ call.err = "ExistingNulldataOutput"
    /\ tx = call.pre
    /\ Cardinality(NulldataIndexes(tx)) = 1

(***************************** broadcast messages on a transaction **********)
\* the nonces a key can sign a message with
MsgNonces ==
    [d \in SecretExponents |->
        [m \in Messages |-> Nonces(d, bitcoin_message_hash(m))]]

\* the frame of add_broadcast_message without the message data
FrameHead(tn, signature, sender_key) ==
    signature \o Zeros(PAD_BYTES) \o address_to_hash160(tn, KeyAddress(tn, sender_key))

\* data blobs another writer can put on the chain: frames of a signature of
\* the key for "hi" with the message data cut off, left uncompressed or
\* replaced, frames of byte strings that are no signature, and a short blob
ForeignBlobs(tn, k_) ==
    LET hi == <<104, 105>>
        k == CHOOSE n \in MsgNonces[k_.secret_exponent][hi] : TRUE
        signature == sign_data(tn, hi, k_, k).val
        head == FrameHead(tn, signature, k_)
    IN {head,
        head \o hi,
        SubSeq(head, 1, Len(head) - 1),
        head \o zlib_compress(<<104, 111>>),
        FrameHead(tn, Zeros(SIG_BYTES), k_) \o zlib_compress(hi),
        FrameHead(tn, <<27>> \o sigencode_string(2, 0), k_) \o zlib_compress(hi),
        <<1, 2, 3>>}

MsgInit ==
    /\ tx = EmptyTx
    /\ call = NoCall
    /\ utxos = <<>>
    /\ split = NoSplit
    /\ key \in Keys
    /\ testnet \in BOOLEAN
    /\ nops = 0

\* add_broadcast_message(testnet, tx, message, key)
Compose ==
    /\ call.op = "none"
    /\ \E message \in Messages :
       \E k \in MsgNonces[key.secret_exponent][message] :
       \E r \in add_broadcast_message(testnet, tx, message, key, DUST_LIMIT, k) :
            /\ tx' = After(r)
            /\ call' = Called("add_broadcast_message", <<message, k>>, tx, r.err, <<>>)
    /\ UNCHANGED <<utxos, split, key, testnet, nops>>

\* add_data_blob(tx, blob) by a writer that is not add_broadcast_message
AddForeignBlob ==
    /\ call.op = "none"
    /\ \E blob \in ForeignBlobs(testnet, key) :
       \E r \in add_data_blob(tx, blob, DUST_LIMIT) :
            /\ tx' = After(r)
            /\ call' = Called("add_data_blob", <<blob>>, tx, r.err, <<>>)
    /\ UNCHANGED <<utxos, split, key, testnet, nops>>

\* get_broadcast_message(testnet, tx), pre the call that wrote tx
Parse ==
    /\ call.op # "get_broadcast_message"
    /\ LET r == get_broadcast_message(testnet, tx) IN
         call' = Called("get_broadcast_message", <<>>, call, r.err, r.val)
    /\ UNCHANGED <<tx, utxos, split, key, testnet, nops>>

MsgNext == Compose \/ AddForeignBlob \/ Parse

SpecMsg == MsgInit /\ [][MsgNext]_vars

\* C6: get_broadcast_message raises NoBroadcastMessage and nothing else: for
\* a transaction without a data blob, a blob shorter than the frame, message
\* data that does not decompress and a signature that does not verify.
\* Otherwise it returns the address, the message and the signature, which
\* for a transaction add_broadcast_message wrote are those it was given.
C6_OnlyNoBroadcastMessage ==
    call.op = "get_broadcast_message" =>
        /\ call.err \in {"none", "NoBroadcastMessage"}
        /\ call.err = "none" => DOMAIN call.ret = {"address", "message", "signature"}
        /\ call.pre.op = "add_broadcast_message" =>
              /\ call.err = "none"
              /\ call.ret.message = call.pre.arg[1]
              /\ call.ret.address = KeyAddress(testnet, key)
        /\ call.pre.op = "none" => call.err = "NoBroadcastMessage"

(***************************** funding a transaction ************************)
CoinValues == {0, 1000, 3000, 5000}

\* what the service can return: up to MaxUtxos spendables in any order
Services ==
    UNION {{Service(values) : values \in [1..n -> CoinValues]} : n \in 0..MaxUtxos}

Amounts == {0, 1, 1000, 4000, 5000, 6000, 10000}

FundInit ==
    /\ tx = EmptyTx
    /\ call = NoCall
    /\ utxos \in Services
    /\ split = NoSplit
    /\ key = [secret_exponent |-> 1, uncompressed |-> FALSE]
    /\ testnet = FALSE
    /\ nops = 0

\* an output for add_inputs to pay: add_nulldata_output or add_hash160data_output
FundAddOutput ==
    /\ call.op = "none"
    /\ nops < MaxOps
    /\ \/ LET r == add_nulldata_output(tx, nulldata_txout(serialize_data(<<0, 0>>))) IN
            r.err = "none" /\ tx' = r.val
       \/ tx' = add_hash160data_output(
                    tx, hash160data_txout(serialize_data(Zeros(20)), DUST_LIMIT))
    /\ nops' = nops + 1
    /\ UNCHANGED <<call, utxos, split, key, testnet>>

\* find_txins(service, [key.address()], amount)
FindTxins ==
    /\ call.op = "none"
    /\ \E amount \in Amounts :
         call' = Called("find_txins", <<amount>>, tx, "none", find_txins(utxos, amount))
    /\ UNCHANGED <<tx, utxos, split, key, testnet, nops>>

\* add_inputs(service, testnet, tx, [key], fee=fee)
AddInputs ==
    /\ call.op = "none"
    /\ \E fee \in Fees :
         LET r == add_inputs(utxos, testnet, tx, key, fee) IN
            /\ tx' = After(r)
            /\ call' = Called("add_inputs", <<fee>>, tx, r.err, r.val)
    /\ UNCHANGED <<utxos, split, key, testnet, nops>>

FundNext == FundAddOutput \/ FindTxins \/ AddInputs

SpecFund == FundInit /\ [][FundNext]_vars

\* the coin value of the spendable a transaction input spends
ValueOf(txin) == utxos[txin.previous_hash].coin_value

RECURSIVE ValueSum(_, _)
\* the coin values of the first m of the inputs txins
ValueSum(txins, m) == IF m = 0 THEN 0 ELSE ValueOf(txins[m]) + ValueSum(txins, m - 1)

\* txins are the n spendables of greatest value, by descending value, and total
\* their sum; they reach amount or are all there is, and none of their
\* prefixes of at least least inputs reaches amount
ShortestPrefix(txins, total, amount, least) ==
    LET n == Len(txins) IN
    /\ \A i, j \in 1..n : i < j => txins[i] # txins[j] /\ ValueOf(txins[i]) >= ValueOf(txins[j])
    /\ \A i \in 1..n : txins[i] = TxIn(utxos[txins[i].previous_hash])
    /\ \A u \in 1..Len(utxos) :
          (\A i \in 1..n : txins[i] # TxIn(utxos[u])) =>
              \A i \in 1..n : utxos[u].coin_value <= ValueOf(txins[i])
    /\ total = ValueSum(txins, n)
    /\ total >= amount \/ n = Len(utxos)
    /\ \A m \in least..(n - 1) : ValueSum(txins, m) < amount

\* add_inputs as the claim has it, over a selection with the given least length
FundedBy(least) ==
    LET required == SumValues(call.pre.txs_out) + call.arg[1]
        found == find_txins(utxos, required)
    IN /\ ShortestPrefix(found.txins, found.total, required, least)
       /\ call.err \in {"none", "InsufficientFunds"}
       /\ call.err = "InsufficientFunds" <=> found.total < required
       /\ call.err = "InsufficientFunds" =>
             call.ret = <<required, found.total>> /\ tx = call.pre
       /\ call.err = "none" =>
             /\ tx.txs_in = call.pre.txs_in \o found.txins
             /\ Len(tx.txs_out) = Len(call.pre.txs_out) + 1
             /\ SubSeq(tx.txs_out, 1, Len(call.pre.txs_out)) = call.pre.txs_out
             /\ tx.txs_out[Len(tx.txs_out)].coin_value = found.total - required

\* C8 as stated: find_txins returns the shortest prefix, the empty one
\* included, of the spendables by descending value that reaches the amount,
\* or all of them; add_inputs raises InsufficientFunds(required, total) exactly
\* when the total is below required and leaves the transaction alone, and
\* otherwise appends the inputs and one change output of total - required.
C8_ShortestPrefix ==
    /\ call.op = "find_txins" =>
          ShortestPrefix(call.ret.txins, call.ret.total, call.arg[1], 0)
    /\ call.op = "add_inputs" => FundedBy(0)

\* C8: find_txins adds a spendable before it compares, so it returns the
\* shortest prefix of at least one spendable that reaches the amount, or all
\* of them; the rest as stated.
C8_ShortestNonEmptyPrefix ==
    /\ call.op = "find_txins" =>
          ShortestPrefix(call.ret.txins, call.ret.total, call.arg[1], 1)
    /\ call.op = "add_inputs" => FundedBy(1)

\* [1000, 0, 1000] and 1548 to pay: the inputs are both 1000s, 452 is change
C8_Witness ==
    /\ call.op = "add_inputs"
    /\ call.err = "none"
    /\ utxos = Service(<<1000, 0, 1000>>)
    /\ SumValues(call.pre.txs_out) + call.arg[1] = DUST_LIMIT + 1000
    /\ tx.txs_in = <<TxIn(utxos[1]), TxIn(utxos[3])>>
    /\ tx.txs_out[Len(tx.txs_out)].coin_value = 1000 + 1000 - (DUST_LIMIT + 1000)

(***************************** the recursion of split_utxos *****************)
SplitFees == {0, 1000}

SplitLimits == {0, 1, 1000, 2000}

\* the spendables split_utxos is given: up to MaxUtxos of them in any order,
\* some of them dust for the larger fee and limits
SplitSpendables ==
    UNION {{Service(values) : values \in [1..n -> {1000, 3000, 5000}]} : n \in 0..MaxUtxos}

SplitInit ==
    /\ tx = EmptyTx
    /\ call = NoCall
    /\ utxos = <<>>
    /\ split = NoSplit
    /\ key = [secret_exponent |-> 1, uncompressed |-> FALSE]
    /\ testnet = FALSE
    /\ nops = 0

\* the caller's split_utxos(service, testnet, key, spendables, limit, fee,
\* max_outputs) with the spendables of the service
SplitStart ==
    /\ split.pc = "off"
    /\ \E spendables \in SplitSpendables :
       \E fee \in SplitFees, limit \in SplitLimits, max_outputs \in 0..MaxOutputs :
          /\ utxos' = spendables
          /\ split' = [pc |-> "call", spendables |-> spendables, fee |-> fee,
                       limit |-> limit, max_outputs |-> max_outputs, txs |-> <<>>,
                       err |-> "none"]
    /\ UNCHANGED <<tx, call, key, testnet, nops>>

\* one call of split_utxos, down to its return, its raise or its recursive call
SplitUtxos ==
    /\ split.pc = "call"
    /\ split' = split_utxos(testnet, key, split)
    /\ UNCHANGED <<tx, call, utxos, key, testnet, nops>>

SplitNext == SplitStart \/ SplitUtxos

\* a call that was made runs on
SpecSplit == SplitInit /\ [][SplitNext]_vars /\ WF_vars(SplitUtxos)

\* split_utxos was called with the parameters C10 names: fee >= 0, limit >= 1,
\* max_outputs >= 1
SplitDomain ==
    split.pc # "off" /\ split.fee >= 0 /\ split.limit >= 1 /\ split.max_outputs >= 1

\* the outputs of t are worth the inputs less the fee, in equal shares with
\* the remainder of the division on the first
ExactTx(t) ==
    LET total == ValueSum(t.txs_in, Len(t.txs_in)) - split.fee
        cnt == Len(t.txs_out)
    IN /\ cnt >= 1
       /\ SumValues(t.txs_out) = total
       /\ \A i \in 2..cnt : t.txs_out[i].coin_value = (total \div cnt)
       /\ t.txs_out[1].coin_value = (total \div cnt) + (total % cnt)

\* C7 as stated: for any spendables, fee, limit and max_outputs, split_utxos
\* raises nothing, and every transaction it makes has at least one output,
\* outputs worth exactly the inputs less the fee, and the remainder of the
\* division on the first output only.
C7_AnyParameters ==
    split.pc # "off" =>
        /\ split.pc # "raised"
        /\ \A t \in 1..Len(split.txs) : ExactTx(split.txs[t])

\* C7: the same for fee >= 0, limit >= 1 and max_outputs >= 1. A zero limit or
\* a zero max_outputs makes the division in _outputs one by zero.
C7_ExactOutputs == SplitDomain => C7_AnyParameters

\* a transaction whose first output carries a remainder
C7_Witness ==
    /\ SplitDomain
    /\ split.pc = "done"
    /\ \E t \in 1..Len(split.txs) :
          /\ Len(split.txs[t].txs_out) = MaxOutputs
          /\ split.txs[t].txs_out[1].coin_value > split.txs[t].txs_out[2].coin_value
          /\ ExactTx(split.txs[t])

\* the inputs of the transactions in txs
InputsOf(txs) ==
    UNION {{txs[t].txs_in[i] : i \in 1..Len(txs[t].txs_in)} : t \in 1..Len(txs)}

\* a call of split_utxos as C10 has it: it stops with no transaction when the
\* filtered total is below fee + 2 * limit, and otherwise makes one whose
\* inputs are the last spendables of the ascending list, the largest first,
\* none of them an input before, and calls itself with the shorter list
Pass ==
    LET before == filter_dust(split.spendables, split.fee, split.limit)
        after == split'.spendables
        new == split'.txs[Len(split'.txs)]
    IN IF SumValues(before) < split.fee + 2 * split.limit
       THEN split'.pc = "done" /\ split'.txs = split.txs
       ELSE /\ split'.pc = "call"
            /\ \A i, j \in 1..Len(before) :
                  i < j => before[i].coin_value <= before[j].coin_value
            /\ Len(after) < Len(before)
            /\ after = SubSeq(before, 1, Len(after))
            /\ split'.txs = Append(split.txs, new)
            /\ Len(new.txs_in) = Len(before) - Len(after)
            /\ \A i \in 1..Len(new.txs_in) :
                  new.txs_in[i] = TxIn(before[Len(before) + 1 - i])
            /\ InputsOf(split.txs) \cap InputsOf(<<new>>) = {}

\* C10: with fee >= 0, limit >= 1 and max_outputs >= 1 every call of
\* split_utxos is a Pass, and the recursion returns.
C10_SplitTerminates ==
    /\ [][SplitDomain /\ split.pc = "call" => Pass]_vars
    /\ SplitDomain ~> split.pc = "done"

\* a recursion of three transactions that has returned
C10_Witness ==
    /\ SplitDomain
    /\ split.pc = "done"
    /\ Len(split.txs) = MaxUtxos
    /\ Cardinality(InputsOf(split.txs)) = MaxUtxos
====
